---- MODULE Spec2Model ----
(***************************************************************************)
(* The cube facelet-state engine of backend/solves.py: the index <-> key   *)
(* tables, the six rotation primitives, _apply_move_once, the interpreter  *)
(* scramble_to_state and validate_cube_state_basic.                        *)
(*                                                                         *)
(* A Python str is modelled as a sequence of one-character strings, a list *)
(* of labels (facelets) as a function on 0..53, a dict as a function.      *)
(***************************************************************************)
EXTENDS Integers, Sequences, FiniteSets, TLC

VARIABLES
    pc,         \* where the running call is: idle, loop, turn, direct, done, raised, validated
    scramble,   \* argument of scramble_to_state
    tokens,     \* scramble.split()
    ti,         \* position of the for loop over tokens (1-based)
    base,       \* tok[0] of the current token
    turnsLeft,  \* iterations of "for _ in range(turns)" still to run
    facelets,   \* the list of 54 labels the call works on
    applied,    \* history: the moves _apply_move_once has returned from, in order
    hist,       \* history: hist[1] is the first list, hist[n+1] the list after n moves
    marks,      \* history: marks[k] is Len(applied) when token k was finished
    result,     \* what scramble_to_state returned
    err,        \* the exception that ended the call
    state,      \* argument of validate_cube_state_basic
    verdict,    \* what validate_cube_state_basic returned
    idx_to_key, \* the module global IDX_TO_KEY
    key_to_idx, \* the module global KEY_TO_IDX
    probe,      \* one use of a table, a rotation primitive or a layer lambda, and what it gave
    rl,         \* one call of rotate_layer, loop by loop: its locals
    req,        \* one request to a route that asks the solver: its locals, the solver, the store
    calls,      \* calls of scramble_to_state running at the same time: the locals of each
    build,      \* calls of _build_facelet_index_maps: the locals of each
    gen         \* one call of generate_scramble_3x3: its locals

\* the locals and history of the one call followed step by step
engineVars == <<pc, scramble, tokens, ti, base, turnsLeft, facelets, applied, hist,
                marks, result, err, state, verdict>>
tableVars == <<idx_to_key, key_to_idx>>
outsideEngine == <<tableVars, probe, rl, req, calls, build, gen>>

vars == <<engineVars, tableVars, probe, rl, req, calls, build, gen>>

(***************************************************************************)
(* Bounds of the model.                                                    *)
(***************************************************************************)
\* longest scramble over the full token set
MaxTokens == 2
\* longest scramble of unmodified face letters
MaxPlain == 3
\* longest scramble repeating one token
MaxRepeat == 4
\* longest chain of direct _apply_move_once calls
MaxMoves == 4
\* longest scramble of a call that runs beside another
MaxConcurrentTokens == 2
\* largest length asked of generate_scramble_3x3
MaxLength == 2

None == "None"
Range(f) == {f[i] : i \in DOMAIN f}
Max(S) == CHOOSE m \in S : \A n \in S : n <= m

(***************************************************************************)
(* Module constants.                                                       *)
(***************************************************************************)
MOVES == <<"R", "L", "U", "D", "F", "B">>
MODS == << <<>>, <<"'">>, <<"2">> >>
FACES == <<"U", "R", "F", "D", "L", "B">>

(***************************************************************************)
(* _build_facelet_index_maps: the calls of add(), in order.  idx starts at *)
(* 0 and grows by one per call, so call number n (1-based) has idx n-1.    *)
(* The outer loop variable is the row, the inner one the column.           *)
(***************************************************************************)
Asc == <<-1, 0, 1>>
Desc == <<1, 0, -1>>
Outer(n) == ((n - 1) \div 3) + 1
Inner(n) == ((n - 1) % 3) + 1

\* the L loop written as a copy of the R loop, its columns turned round only
AddCalls_L_copied_from_R ==
    [n \in 1..54 |->
        LET r == Outer(((n - 1) % 9) + 1)
            c == Inner(((n - 1) % 9) + 1)
        IN  CASE n \in 1..9 -> <<Asc[c], 1, Asc[r], 0, 1, 0>>
              [] n \in 10..18 -> <<1, Desc[r], Desc[c], 1, 0, 0>>
              [] n \in 19..27 -> <<Asc[c], Desc[r], 1, 0, 0, 1>>
              [] n \in 28..36 -> <<Asc[c], -1, Desc[r], 0, -1, 0>>
              [] n \in 37..45 -> <<1, Desc[r], Asc[c], 1, 0, 0>>
              [] n \in 46..54 -> <<Desc[c], Desc[r], -1, 0, 0, -1>>]

\* the key of the n-th call of add(); the six loops make nine calls each
AddCalls ==
    [n \in 1..54 |->
        LET r == Outer(((n - 1) % 9) + 1)
            c == Inner(((n - 1) % 9) + 1)
        IN  CASE n \in 1..9 -> <<Asc[c], 1, Asc[r], 0, 1, 0>>
              [] n \in 10..18 -> <<1, Desc[r], Desc[c], 1, 0, 0>>
              [] n \in 19..27 -> <<Asc[c], Desc[r], 1, 0, 0, 1>>
              [] n \in 28..36 -> <<Asc[c], -1, Desc[r], 0, -1, 0>>
              [] n \in 37..45 -> <<-1, Desc[r], Asc[c], -1, 0, 0>>
              [] n \in 46..54 -> <<Desc[c], Desc[r], -1, 0, 0, -1>>]

\* idx_to_key[idx] = key and key_to_idx[key] = idx; a later call overwrites.
_build_facelet_index_maps ==
    [idx_to_key |-> [i \in 0..53 |-> AddCalls[i + 1]],
     key_to_idx |-> [k \in Range(AddCalls) |->
                        Max({n \in 1..54 : AddCalls[n] = k}) - 1]]

\* IDX_TO_KEY, KEY_TO_IDX = _build_facelet_index_maps()
IDX_TO_KEY == _build_facelet_index_maps.idx_to_key
KEY_TO_IDX == _build_facelet_index_maps.key_to_idx

(***************************************************************************)
(* The rotation primitives.                                                *)
(***************************************************************************)
_rot_y_neg90(v) == <<v[3], v[2], -v[1]>>
_rot_y_pos90(v) == <<-v[3], v[2], v[1]>>
\* the quarter turn about x in the other direction
_rot_x_neg90_other_way(v) == <<v[1], -v[3], v[2]>>
_rot_x_neg90(v) == <<v[1], v[3], -v[2]>>
_rot_x_pos90(v) == <<v[1], -v[3], v[2]>>
_rot_z_neg90(v) == <<v[2], -v[1], v[3]>>
\* a sign too many in the quarter turn about z
_rot_z_pos90_sign_slip(v) == <<-v[2], -v[1], v[3]>>
_rot_z_pos90(v) == <<-v[2], v[1], v[3]>>

(***************************************************************************)
(* _apply_move_once.  The if/elif chain picks a selector lambda and a      *)
(* rotation; key is (x, y, z, nx, ny, nz).                                 *)
(***************************************************************************)
Recognised == {"U", "D", "R", "L", "F", "B"}

\* the U and D lambdas also select the middle slice
selector_fn_wide(move, key) ==
    CASE move = "U" -> key[2] >= 0
      [] move = "D" -> key[2] <= 0
      [] move = "R" -> key[1] = 1
      [] move = "L" -> key[1] = -1
      [] move = "F" -> key[3] = 1
      [] move = "B" -> key[3] = -1

\* the lambdas testing the normal instead of the position
selector_fn_by_normal(move, key) ==
    CASE move = "U" -> key[5] = 1
      [] move = "D" -> key[5] = -1
      [] move = "R" -> key[4] = 1
      [] move = "L" -> key[4] = -1
      [] move = "F" -> key[6] = 1
      [] move = "B" -> key[6] = -1

\* the lambda of R testing the slice next to the face
selector_fn_R_slice_off(move, key) ==
    CASE move = "U" -> key[2] = 1
      [] move = "D" -> key[2] = -1
      [] move = "R" -> key[1] = 0
      [] move = "L" -> key[1] = -1
      [] move = "F" -> key[3] = 1
      [] move = "B" -> key[3] = -1

\* the lambda of F leaving out the nine stickers of the face itself
selector_fn_F_sides_only(move, key) ==
    CASE move = "U" -> key[2] = 1
      [] move = "D" -> key[2] = -1
      [] move = "R" -> key[1] = 1
      [] move = "L" -> key[1] = -1
      [] move = "F" -> key[3] = 1 /\ key[6] = 0
      [] move = "B" -> key[3] = -1

selector_fn(move, key) ==
    CASE move = "U" -> key[2] = 1
      [] move = "D" -> key[2] = -1
      [] move = "R" -> key[1] = 1
      [] move = "L" -> key[1] = -1
      [] move = "F" -> key[3] = 1
      [] move = "B" -> key[3] = -1

\* the branch of D naming the rotation about the x axis
rot_fn_D_about_x(move, v) ==
    CASE move = "U" -> _rot_y_neg90(v)
      [] move = "D" -> _rot_x_pos90(v)
      [] move = "R" -> _rot_x_neg90(v)
      [] move = "L" -> _rot_x_pos90(v)
      [] move = "F" -> _rot_z_neg90(v)
      [] move = "B" -> _rot_z_pos90(v)

rot_fn(move, v) ==
    CASE move = "U" -> _rot_y_neg90(v)
      [] move = "D" -> _rot_y_pos90(v)
      [] move = "R" -> _rot_x_neg90(v)
      [] move = "L" -> _rot_x_pos90(v)
      [] move = "F" -> _rot_z_neg90(v)
      [] move = "B" -> _rot_z_pos90(v)

\* the key looked up in KEY_TO_IDX for source slot i
RotatedKey(move, i) ==
    LET k == IDX_TO_KEY[i]
        p == rot_fn(move, <<k[1], k[2], k[3]>>)
        n == rot_fn(move, <<k[4], k[5], k[6]>>)
    IN  <<p[1], p[2], p[3], n[1], n[2], n[3]>>

\* the slots the first loop of rotate_layer visits
Selected(move) == {i \in 0..53 : selector_fn(move, IDX_TO_KEY[i])}

\* the first loop of rotate_layer from slot i on: mapping[j] = i, a later i
\* overwrites; a lookup miss (KeyError) ends the loop
RECURSIVE BuildMapping(_, _, _)
BuildMapping(mapping, move, i) ==
    IF i > 53 THEN [miss |-> FALSE, mapping |-> mapping]
    ELSE IF selector_fn(move, IDX_TO_KEY[i])
         THEN LET key == RotatedKey(move, i)
              IN  IF key \in DOMAIN KEY_TO_IDX
                  THEN BuildMapping((KEY_TO_IDX[key] :> i) @@ mapping, move, i + 1)
                  ELSE [miss |-> TRUE, mapping |-> mapping]
         ELSE BuildMapping(mapping, move, i + 1)

\* the tables and the lambdas never change, so the first loop builds the same
\* dict in every call with the same move
MappingOf == [move \in Recognised |-> BuildMapping(<<>>, move, 0)]

\* rotate_layer with "new_faces = facelets" for the copy: the second loop
\* then reads slots it has already written (in the order mapping was filled)
RECURSIVE WriteInPlace(_, _, _)
WriteInPlace(fl, move, i) ==
    IF i > 53 THEN fl
    ELSE IF i \in Selected(move)
         THEN WriteInPlace([fl EXCEPT ![KEY_TO_IDX[RotatedKey(move, i)]] = fl[i]], move, i + 1)
         ELSE WriteInPlace(fl, move, i + 1)

rotate_layer_inplace(fl, move) == [raised |-> None, value |-> WriteInPlace(fl, move, 0)]

\* rotate_layer with a new list of 54 empty entries for the copy
rotate_layer_blank(fl, move) ==
    LET built == MappingOf[move]
        mapping == built.mapping
    IN  IF built.miss
        THEN [raised |-> "KeyError", value |-> None]
        ELSE [raised |-> None,
              value |-> [j \in 0..53 |->
                            IF j \in DOMAIN mapping THEN fl[mapping[j]] ELSE None]]

\* rotate_layer: new_faces is a copy of the list given; the second loop
\* writes new_faces[j] = facelets[i] for the items of mapping
rotate_layer(fl, move) ==
    LET built == MappingOf[move]
        mapping == built.mapping
    IN  IF built.miss
        THEN [raised |-> "KeyError", value |-> None]
        ELSE [raised |-> None,
              value |-> [j \in 0..53 |->
                            IF j \in DOMAIN mapping THEN fl[mapping[j]] ELSE fl[j]]]

\* no else branch: an unknown letter returns the copy as it is
_apply_move_once_silent(fl, move) ==
    IF move \in Recognised
    THEN rotate_layer(fl, move)
    ELSE [raised |-> None, value |-> fl]

_apply_move_once(fl, move) ==
    IF move \in Recognised
    THEN rotate_layer(fl, move)
    ELSE [raised |-> "ValueError: unknown move", value |-> None]

(***************************************************************************)
(* scramble_to_state.                                                      *)
(***************************************************************************)
Whitespace == {" ", "\t", "\n"}

\* str.split() without arguments: maximal runs of non-whitespace
RECURSIVE SplitAcc(_, _, _)
SplitAcc(s, cur, acc) ==
    IF s = <<>>
    THEN IF cur = <<>> THEN acc ELSE Append(acc, cur)
    ELSE IF Head(s) \in Whitespace
         THEN SplitAcc(Tail(s), <<>>, IF cur = <<>> THEN acc ELSE Append(acc, cur))
         ELSE SplitAcc(Tail(s), Append(cur, Head(s)), acc)

split(s) == SplitAcc(s, <<>>, <<>>)

\* the solved cube built by looping over MOVES
Solved_in_MOVES_order == [i \in 0..53 |-> MOVES[(i \div 9) + 1]]

\* the solved cube: for face in FACES: facelets.extend([face] * 9)
Solved == [i \in 0..53 |-> FACES[(i \div 9) + 1]]

\* "".join(facelets)
join(fl) == [n \in 1..54 |-> fl[n - 1]]

\* suf = tok[1:] if len(tok) > 1 else ""
Suffix(tok) == IF Len(tok) > 1 THEN SubSeq(tok, 2, Len(tok)) ELSE <<>>

\* the elif for "'" left out
Turns_no_prime(suf) == IF suf = <<"2">> THEN 2 ELSE 1

\* the two branches with each other's count
Turns_swapped(suf) ==
    IF suf = <<"2">> THEN 3
    ELSE IF suf = <<"'">> THEN 2
    ELSE 1

\* turns = 1; if suf == "2": turns = 2; elif suf == "'": turns = 3
Turns(suf) ==
    IF suf = <<"2">> THEN 2
    ELSE IF suf = <<"'">> THEN 3
    ELSE 1

(***************************************************************************)
(* validate_cube_state_basic.  The reason is kept as its kind and the      *)
(* values formatted into it.                                               *)
(***************************************************************************)
Counter(s) == [c \in Range(s) |-> Cardinality({i \in DOMAIN s : s[i] = c})]

\* the number of distinct characters tested before the length
validate_cube_state_basic_reordered(s) ==
    LET counts == Counter(s)
        bad == [c \in {d \in DOMAIN counts : counts[d] # 9} |-> counts[c]]
    IN  IF Cardinality(DOMAIN counts) # 6
        THEN [valid |-> FALSE, reason |-> "distinct",
              found |-> Cardinality(DOMAIN counts), bad |-> None]
        ELSE IF s = <<>> \/ Len(s) # 54
             THEN [valid |-> FALSE, reason |-> "length", found |-> None, bad |-> None]
             ELSE IF DOMAIN bad # {}
                  THEN [valid |-> FALSE, reason |-> "uneven", found |-> None, bad |-> bad]
                  ELSE [valid |-> TRUE, reason |-> None, found |-> None, bad |-> None]

validate_cube_state_basic(s) ==
    IF s = <<>> \/ Len(s) # 54
    THEN [valid |-> FALSE, reason |-> "length", found |-> None, bad |-> None]
    ELSE LET counts == Counter(s)
             bad == [c \in {d \in DOMAIN counts : counts[d] # 9} |-> counts[c]]
         IN  IF Cardinality(DOMAIN counts) # 6
             THEN [valid |-> FALSE, reason |-> "distinct",
                   found |-> Cardinality(DOMAIN counts), bad |-> None]
             ELSE IF DOMAIN bad # {}
                  THEN [valid |-> FALSE, reason |-> "uneven", found |-> None, bad |-> bad]
                  ELSE [valid |-> TRUE, reason |-> None, found |-> None, bad |-> None]

(***************************************************************************)
(* Inputs.                                                                 *)
(***************************************************************************)
Tok(f, m) == <<f>> \o m

ValidTokens == {Tok(MOVES[a], MODS[b]) : a \in 1..6, b \in 1..3}
BadModTokens == {<<"R", "3">>, <<"R", "w">>, <<"R", "2", "'">>}
BadFaceTokens == {<<"x">>, <<"u", "'">>, <<"2">>}
TOKENS == ValidTokens \cup BadModTokens \cup BadFaceTokens
PlainTokens == {<<MOVES[a]>> : a \in 1..6} \cup {<<"x">>}

TokSeqs(S, n) == UNION {[1..k -> S] : k \in 0..n}

RECURSIVE JoinWith(_, _)
JoinWith(ts, sep) ==
    IF ts = <<>> THEN <<>>
    ELSE IF Len(ts) = 1 THEN ts[1]
    ELSE ts[1] \o sep \o JoinWith(Tail(ts), sep)

ScrambleInputs ==
    {JoinWith(ts, <<" ">>) : ts \in TokSeqs(TOKENS, MaxTokens) \cup TokSeqs(PlainTokens, MaxPlain)}
    \cup {JoinWith([n \in 1..k |-> t], <<" ">>) : t \in TOKENS, k \in 1..MaxRepeat}
    \cup {<<" ">> \o JoinWith(ts, <<" ", "\t">>) \o <<"\n">> : ts \in TokSeqs(TOKENS, 1)}

\* every slot its own label: a move's effect on it shows the move's permutation
Distinct == [i \in 0..53 |-> ToString(i)]
OneColour == [i \in 0..53 |-> "U"]
StartStates == {Solved, Distinct, OneColour}
\* the move argument of a direct call: the six letters and two others
MoveArgs == Recognised \cup {"x", "u"}

\* strings handed to validate_cube_state_basic: strings of runs of equal
\* characters, and two of them with one character replaced, cut or added
Symbols == <<"U", "R", "F", "D", "L", "B", "X">>
RunLens == {0, 9, 18}
LenRange == 45..63

RECURSIVE Runs(_, _)
Runs(cs, k) ==
    IF k > Len(cs) THEN <<>>
    ELSE [n \in 1..cs[k] |-> Symbols[k]] \o Runs(cs, k + 1)

RECURSIVE Sum(_, _)
Sum(cs, k) == IF k > Len(cs) THEN 0 ELSE cs[k] + Sum(cs, k + 1)

FiveColours == Runs(<<18, 9, 9, 9, 9, 0, 0>>, 1)
EditBases == {join(Solved), FiveColours}

StateInputs ==
    {Runs(cs, 1) : cs \in {d \in [1..7 -> RunLens] : Sum(d, 1) \in LenRange}}
    \cup {[b EXCEPT ![p] = Symbols[c]] : b \in EditBases, p \in 1..54, c \in 1..7}
    \cup {SubSeq(b, 1, 53) : b \in EditBases}
    \cup {Append(b, Symbols[c]) : b \in EditBases, c \in 1..7}
    \cup {<<>>, <<"s", "h", "o", "r", "t">>}

\* two calls of _build_facelet_index_maps made after the one at module load
BuildIds == {"one", "two"}

\* two calls of scramble_to_state running at the same time, and their scrambles
CallIds == {"a", "b"}
ConcurrentTokens == {<<"R">>, <<"F", "'">>, <<"x">>}
ConcurrentScrambles ==
    {JoinWith(ts, <<" ">>) : ts \in TokSeqs(ConcurrentTokens, MaxConcurrentTokens)}

(***************************************************************************)
(* The state machine.                                                      *)
(***************************************************************************)
\* the state after the module is loaded
Init ==
    /\ pc = "idle"
    /\ scramble = None
    /\ tokens = <<>>
    /\ ti = 0
    /\ base = None
    /\ turnsLeft = 0
    /\ facelets = None
    /\ applied = <<>>
    /\ hist = <<>>
    /\ marks = <<>>
    /\ result = None
    /\ err = None
    /\ state = None
    /\ verdict = None
    /\ idx_to_key = IDX_TO_KEY
    /\ key_to_idx = KEY_TO_IDX
    /\ probe = [op |-> None]
    /\ rl = [pc |-> "idle"]
    /\ req = [pc |-> "idle", log |-> <<>>, session |-> <<>>, store |-> <<>>]
    /\ calls = [heap |-> <<>>, proc |-> [c \in CallIds |-> [pc |-> "idle"]]]
    /\ build = [b \in BuildIds |-> [pc |-> "idle"]]
    /\ gen = [pc |-> "idle"]

\* "if not scramble" returning the scramble itself
CallScramble_returns_argument(s) ==
    /\ pc = "idle"
    /\ scramble' = s
    /\ facelets' = Solved
    /\ hist' = <<Solved>>
    /\ IF s = <<>>
       THEN /\ result' = s
            /\ pc' = "done"
            /\ UNCHANGED <<tokens, ti>>
       ELSE /\ tokens' = split(s)
            /\ ti' = 1
            /\ pc' = "loop"
            /\ UNCHANGED result
    /\ UNCHANGED <<base, turnsLeft, applied, marks, err, state, verdict>>
    /\ UNCHANGED outsideEngine

\* scramble_to_state, up to the for loop
CallScramble(s) ==
    /\ pc = "idle"
    /\ scramble' = s
    /\ facelets' = Solved
    /\ hist' = <<Solved>>
    /\ IF s = <<>>
       THEN /\ result' = join(Solved)
            /\ pc' = "done"
            /\ UNCHANGED <<tokens, ti>>
       ELSE /\ tokens' = split(s)
            /\ ti' = 1
            /\ pc' = "loop"
            /\ UNCHANGED result
    /\ UNCHANGED <<base, turnsLeft, applied, marks, err, state, verdict>>
    /\ UNCHANGED outsideEngine

\* the loop running over the tokens from the last to the first
TakeToken_backwards ==
    /\ pc = "loop"
    /\ ti <= Len(tokens)
    /\ base' = tokens[Len(tokens) + 1 - ti][1]
    /\ turnsLeft' = Turns(Suffix(tokens[Len(tokens) + 1 - ti]))
    /\ pc' = "turn"
    /\ UNCHANGED <<scramble, tokens, ti, facelets, applied, hist, marks, result,
                   err, state, verdict>>
    /\ UNCHANGED outsideEngine

\* the head of one iteration of "for tok in tokens"
TakeToken ==
    /\ pc = "loop"
    /\ ti <= Len(tokens)
    /\ base' = tokens[ti][1]
    /\ turnsLeft' = Turns(Suffix(tokens[ti]))
    /\ pc' = "turn"
    /\ UNCHANGED <<scramble, tokens, ti, facelets, applied, hist, marks, result,
                   err, state, verdict>>
    /\ UNCHANGED outsideEngine

\* one iteration of "for _ in range(turns)"
Turn ==
    /\ pc = "turn"
    /\ LET r == _apply_move_once(facelets, base)
       IN  IF r.raised # None
           THEN /\ err' = r.raised
                /\ pc' = "raised"
                /\ UNCHANGED <<facelets, applied, hist, marks, turnsLeft, ti>>
           ELSE /\ facelets' = r.value
                /\ applied' = Append(applied, base)
                /\ hist' = Append(hist, r.value)
                /\ turnsLeft' = turnsLeft - 1
                /\ IF turnsLeft = 1
                   THEN /\ pc' = "loop"
                        /\ ti' = ti + 1
                        /\ marks' = Append(marks, Len(applied) + 1)
                   ELSE /\ pc' = "turn"
                        /\ UNCHANGED <<ti, marks>>
                /\ UNCHANGED err
    /\ UNCHANGED <<scramble, tokens, base, result, state, verdict>>
    /\ UNCHANGED outsideEngine

\* return "".join(facelets)
Return ==
    /\ pc = "loop"
    /\ ti > Len(tokens)
    /\ result' = join(facelets)
    /\ pc' = "done"
    /\ UNCHANGED <<scramble, tokens, ti, base, turnsLeft, facelets, applied, hist,
                   marks, err, state, verdict>>
    /\ UNCHANGED outsideEngine

\* a caller hands _apply_move_once a list of its own
ApplyFresh(s, m) ==
    /\ pc = "idle"
    /\ LET r == _apply_move_once(s, m)
       IN  IF r.raised # None
           THEN /\ err' = r.raised
                /\ pc' = "raised"
                /\ facelets' = s
                /\ hist' = <<s>>
                /\ UNCHANGED applied
           ELSE /\ facelets' = r.value
                /\ hist' = <<s, r.value>>
                /\ applied' = <<m>>
                /\ pc' = "direct"
                /\ UNCHANGED err
    /\ base' = m
    /\ UNCHANGED <<scramble, tokens, ti, turnsLeft, marks, result, state, verdict>>
    /\ UNCHANGED outsideEngine

\* ... and hands the returned list to the next call
ApplyAgain(m) ==
    /\ pc = "direct"
    /\ Len(applied) < MaxMoves
    /\ LET r == _apply_move_once(facelets, m)
       IN  IF r.raised # None
           THEN /\ err' = r.raised
                /\ pc' = "raised"
                /\ UNCHANGED <<facelets, hist, applied>>
           ELSE /\ facelets' = r.value
                /\ hist' = Append(hist, r.value)
                /\ applied' = Append(applied, m)
                /\ pc' = "direct"
                /\ UNCHANGED err
    /\ base' = m
    /\ UNCHANGED <<scramble, tokens, ti, turnsLeft, marks, result, state, verdict>>
    /\ UNCHANGED outsideEngine

\* a route hands validate_cube_state_basic the state of the request
CallValidate(s) ==
    /\ pc = "idle"
    /\ state' = s
    /\ verdict' = validate_cube_state_basic(s)
    /\ pc' = "validated"
    /\ UNCHANGED <<scramble, tokens, ti, base, turnsLeft, facelets, applied, hist,
                   marks, result, err>>
    /\ UNCHANGED outsideEngine

Next ==
    \/ pc = "idle" /\ \E s \in ScrambleInputs : CallScramble(s)
    \/ TakeToken
    \/ Turn
    \/ Return
    \/ pc = "idle" /\ \E s \in StartStates, m \in MoveArgs : ApplyFresh(s, m)
    \/ pc = "direct" /\ \E m \in MoveArgs : ApplyAgain(m)
    \/ pc = "idle" /\ \E s \in StateInputs : CallValidate(s)

Spec == Init /\ [][Next]_vars

\* _apply_move_once called on its own, each call given the list the last one
\* returned
NextMoves ==
    \/ pc = "idle" /\ \E s \in StartStates, m \in MoveArgs : ApplyFresh(s, m)
    \/ pc = "direct" /\ \E m \in MoveArgs : ApplyAgain(m)

SpecMoves == Init /\ [][NextMoves]_vars

(***************************************************************************)
(* The tables, the rotation primitives and the layer lambdas used one at a *)
(* time, and one call of rotate_layer followed through its two loops; one   *)
(* of these uses is followed in a behaviour.                               *)
(***************************************************************************)
Coords == {-1, 0, 1}
Vectors == {<<x, y, z>> : x \in Coords, y \in Coords, z \in Coords}
\* what a caller may hand the key table: any position with any normal
KeyArgs == {<<p[1], p[2], p[3], n[1], n[2], n[3]>> : p \in Vectors, n \in Vectors}
\* indices on both sides of the table's range
IdxArgs == -1..54

PrimNames == {"_rot_y_neg90", "_rot_y_pos90", "_rot_x_neg90", "_rot_x_pos90",
              "_rot_z_neg90", "_rot_z_pos90"}

Prim(name, v) ==
    CASE name = "_rot_y_neg90" -> _rot_y_neg90(v)
      [] name = "_rot_y_pos90" -> _rot_y_pos90(v)
      [] name = "_rot_x_neg90" -> _rot_x_neg90(v)
      [] name = "_rot_x_pos90" -> _rot_x_pos90(v)
      [] name = "_rot_z_neg90" -> _rot_z_neg90(v)
      [] name = "_rot_z_pos90" -> _rot_z_pos90(v)

\* the primitive of the same axis with the other sign in its name
Opposite(name) ==
    CASE name = "_rot_y_neg90" -> "_rot_y_pos90"
      [] name = "_rot_y_pos90" -> "_rot_y_neg90"
      [] name = "_rot_x_neg90" -> "_rot_x_pos90"
      [] name = "_rot_x_pos90" -> "_rot_x_neg90"
      [] name = "_rot_z_neg90" -> "_rot_z_pos90"
      [] name = "_rot_z_pos90" -> "_rot_z_neg90"

\* IDX_TO_KEY[i], then KEY_TO_IDX of what it gave
LookupIdx(i) ==
    /\ probe.op = None
    /\ rl.pc = "idle"
    /\ probe' = IF i \in DOMAIN idx_to_key
                THEN LET key == idx_to_key[i]
                     IN  IF key \in DOMAIN key_to_idx
                         THEN [op |-> "idx", idx |-> i, hit |-> TRUE, key |-> key,
                               backhit |-> TRUE, back |-> key_to_idx[key]]
                         ELSE [op |-> "idx", idx |-> i, hit |-> TRUE, key |-> key,
                               backhit |-> FALSE]
                ELSE [op |-> "idx", idx |-> i, hit |-> FALSE]
    /\ UNCHANGED <<engineVars, tableVars, rl, req, calls, build, gen>>

\* KEY_TO_IDX[k], then IDX_TO_KEY of what it gave
LookupKey(k) ==
    /\ probe.op = None
    /\ rl.pc = "idle"
    /\ probe' = IF k \in DOMAIN key_to_idx
                THEN LET idx == key_to_idx[k]
                     IN  IF idx \in DOMAIN idx_to_key
                         THEN [op |-> "key", key |-> k, hit |-> TRUE, idx |-> idx,
                               backhit |-> TRUE, back |-> idx_to_key[idx]]
                         ELSE [op |-> "key", key |-> k, hit |-> TRUE, idx |-> idx,
                               backhit |-> FALSE]
                ELSE [op |-> "key", key |-> k, hit |-> FALSE]
    /\ UNCHANGED <<engineVars, tableVars, rl, req, calls, build, gen>>

\* the lambda _apply_move_once picks for move, asked about every slot
SelectLayer(move) ==
    /\ probe.op = None
    /\ rl.pc = "idle"
    /\ probe' = [op |-> "select", move |-> move, slots |-> Selected(move)]
    /\ UNCHANGED <<engineVars, tableVars, rl, req, calls, build, gen>>

\* a rotation primitive applied to a vector
Rotate(name, v) ==
    /\ probe.op = None
    /\ rl.pc = "idle"
    /\ probe' = [op |-> "rot", name |-> name, trail |-> <<v, Prim(name, v)>>]
    /\ UNCHANGED <<engineVars, tableVars, rl, req, calls, build, gen>>

\* ... and applied again to what it returned, up to four times in all
RotateAgain ==
    /\ probe.op = "rot"
    /\ Len(probe.trail) <= 4
    /\ probe' = [probe EXCEPT !.trail =
                    Append(@, Prim(probe.name, probe.trail[Len(probe.trail)]))]
    /\ UNCHANGED <<engineVars, tableVars, rl, req, calls, build, gen>>

\* ... or the primitive of the other sign applied to what the first returned
RotateBack ==
    /\ probe.op = "rot"
    /\ Len(probe.trail) = 2
    /\ probe' = [op |-> "rotback", name |-> probe.name, trail |-> probe.trail,
                 back |-> Prim(Opposite(probe.name), probe.trail[2])]
    /\ UNCHANGED <<engineVars, tableVars, rl, req, calls, build, gen>>

(***************************************************************************)
(* One call _apply_move_once(facelets, move) with a recognised move, step  *)
(* by step.  mapping is the dict of rotate_layer kept as its items in      *)
(* insertion order; written lists the slots of new_faces assigned so far.  *)
(***************************************************************************)
\* mapping[j] = i on a dict kept as a sequence of <<j, i>>
DictSet(items, j, i) ==
    IF \E n \in 1..Len(items) : items[n][1] = j
    THEN [n \in 1..Len(items) |-> IF items[n][1] = j THEN <<j, i>> ELSE items[n]]
    ELSE Append(items, <<j, i>>)

\* new_faces = facelets[:], then the call of rotate_layer
RLCall(fl, move) ==
    /\ rl.pc = "idle"
    /\ probe.op = None
    /\ rl' = [pc |-> "build", move |-> move, facelets |-> fl, new_faces |-> fl,
              i |-> 0, mapping |-> <<>>, k |-> 1, written |-> <<>>]
    /\ UNCHANGED <<engineVars, tableVars, probe, req, calls, build, gen>>

\* the first loop taking the key of the lookup from the position alone
RLBuild_normal_kept ==
    /\ rl.pc = "build"
    /\ rl.i <= 53
    /\ LET key == idx_to_key[rl.i]
           p == rot_fn(rl.move, <<key[1], key[2], key[3]>>)
           rotated == <<p[1], p[2], p[3], key[4], key[5], key[6]>>
       IN  IF selector_fn(rl.move, key)
           THEN IF rotated \in DOMAIN key_to_idx
                THEN rl' = [rl EXCEPT !.mapping = DictSet(@, key_to_idx[rotated], rl.i),
                                      !.i = @ + 1]
                ELSE rl' = [rl EXCEPT !.pc = "KeyError"]
           ELSE rl' = [rl EXCEPT !.i = @ + 1]
    /\ UNCHANGED <<engineVars, tableVars, probe, req, calls, build, gen>>

\* one iteration of "for i in range(54)"
RLBuild ==
    /\ rl.pc = "build"
    /\ rl.i <= 53
    /\ LET key == idx_to_key[rl.i]
           p == rot_fn(rl.move, <<key[1], key[2], key[3]>>)
           n == rot_fn(rl.move, <<key[4], key[5], key[6]>>)
           rotated == <<p[1], p[2], p[3], n[1], n[2], n[3]>>
       IN  IF selector_fn(rl.move, key)
           THEN IF rotated \in DOMAIN key_to_idx
                THEN rl' = [rl EXCEPT !.mapping = DictSet(@, key_to_idx[rotated], rl.i),
                                      !.i = @ + 1]
                ELSE rl' = [rl EXCEPT !.pc = "KeyError"]
           ELSE rl' = [rl EXCEPT !.i = @ + 1]
    /\ UNCHANGED <<engineVars, tableVars, probe, req, calls, build, gen>>

\* the first loop is over
RLBuilt ==
    /\ rl.pc = "build"
    /\ rl.i > 53
    /\ rl' = [rl EXCEPT !.pc = "write"]
    /\ UNCHANGED <<engineVars, tableVars, probe, req, calls, build, gen>>

\* one iteration of "for j, i in mapping.items()"
RLWrite ==
    /\ rl.pc = "write"
    /\ rl.k <= Len(rl.mapping)
    /\ LET j == rl.mapping[rl.k][1]
           i == rl.mapping[rl.k][2]
       IN  rl' = [rl EXCEPT !.new_faces = [@ EXCEPT ![j] = rl.facelets[i]],
                            !.written = Append(@, j),
                            !.k = @ + 1]
    /\ UNCHANGED <<engineVars, tableVars, probe, req, calls, build, gen>>

\* return new_faces
RLReturn ==
    /\ rl.pc = "write"
    /\ rl.k > Len(rl.mapping)
    /\ rl' = [rl EXCEPT !.pc = "returned"]
    /\ UNCHANGED <<engineVars, tableVars, probe, req, calls, build, gen>>

NextGeom ==
    \/ probe.op = None /\ rl.pc = "idle" /\ \E i \in IdxArgs : LookupIdx(i)
    \/ probe.op = None /\ rl.pc = "idle" /\ \E k \in KeyArgs : LookupKey(k)
    \/ probe.op = None /\ rl.pc = "idle" /\ \E move \in Recognised : SelectLayer(move)
    \/ probe.op = None /\ rl.pc = "idle" /\ \E name \in PrimNames, v \in Vectors : Rotate(name, v)
    \/ RotateAgain
    \/ RotateBack
    \/ probe.op = None /\ rl.pc = "idle" /\ \E fl \in StartStates, move \in Recognised : RLCall(fl, move)
    \/ RLBuild
    \/ RLBuilt
    \/ RLWrite
    \/ RLReturn

SpecGeom == Init /\ [][NextGeom]_vars

(***************************************************************************)
(* The routes create_solve_from_state and optimal_solution.  req.log lists *)
(* what the request has done so far, in order: the calls of the validator  *)
(* and of the solver with their argument and outcome, db.session.add,      *)
(* db.session.commit and the response.  kociemba.solve is not part of the  *)
(* repository: a call of it either returns a solution string or raises.    *)
(***************************************************************************)
Routes == {"create_solve_from_state", "optimal_solution"}

\* a state with nine of each letter that no scramble gives: two stickers exchanged
Unsolvable == [join(Solved) EXCEPT ![1] = "R", ![10] = "U"]
RequestStates == StateInputs \cup {Unsolvable}
RequestEvents == {"3x3", "2x2"}
\* request.get_json() or {}: the body with or without "state" and "event"
Bodies ==
    {[state |-> st, event |-> e] : st \in RequestStates, e \in RequestEvents}
    \cup {[state |-> st] : st \in RequestStates}
    \cup {[event |-> e] : e \in RequestEvents}
    \cup {<<>>}
\* what kociemba.solve may return
Solutions == {<<>>, <<"R", " ", "U", "'">>, <<"F", "2">>}

Logged(ev) == [req EXCEPT !.log = Append(@, ev)]
Respond(r, status, error) ==
    [r EXCEPT !.pc = "responded",
              !.log = Append(@, [ev |-> "respond", status |-> status, error |-> error])]

\* require_auth, then the head of the route: the locals read from the body
Request(route, body, authorised) ==
    /\ req.pc = "idle"
    /\ LET r == [pc |-> "event", route |-> route, body |-> body,
                 state |-> IF "state" \in DOMAIN body THEN body.state ELSE None,
                 event |-> IF "event" \in DOMAIN body THEN body.event ELSE "3x3",
                 solution_moves |-> None,
                 log |-> req.log, session |-> req.session, store |-> req.store]
       IN  req' = IF authorised THEN r ELSE Respond(r, 401, "authorization")
    /\ UNCHANGED <<engineVars, tableVars, probe, rl, calls, build, gen>>

\* if event != "3x3"
CheckEvent ==
    /\ req.pc = "event"
    /\ req' = IF req.event # "3x3"
              THEN Respond(req, 400, "Only 3x3 supported for now")
              ELSE [req EXCEPT !.pc = "state"]
    /\ UNCHANGED <<engineVars, tableVars, probe, rl, calls, build, gen>>

\* if state is None
CheckState ==
    /\ req.pc = "state"
    /\ req' = IF "state" \notin DOMAIN req.body
              THEN Respond(req, 400, "state is required")
              ELSE [req EXCEPT !.pc = "validate"]
    /\ UNCHANGED <<engineVars, tableVars, probe, rl, calls, build, gen>>

\* the verdict of the validator not looked at
Validate_verdict_unused ==
    /\ req.pc = "validate"
    /\ LET v == validate_cube_state_basic(req.state)
           r == Logged([ev |-> "validate", state |-> req.state, valid |-> v.valid])
       IN  req' = [r EXCEPT !.pc = "solve"]
    /\ UNCHANGED <<engineVars, tableVars, probe, rl, calls, build, gen>>

\* valid, err = validate_cube_state_basic(state); if not valid
Validate ==
    /\ req.pc = "validate"
    /\ LET v == validate_cube_state_basic(req.state)
           r == Logged([ev |-> "validate", state |-> req.state, valid |-> v.valid])
       IN  req' = IF ~v.valid
                  THEN Respond(r, 400, "Invalid cube state")
                  ELSE [r EXCEPT !.pc = "solve"]
    /\ UNCHANGED <<engineVars, tableVars, probe, rl, calls, build, gen>>

\* the except branch going on with no moves
CallSolver_goes_on(raises, sol) ==
    /\ req.pc = "solve"
    /\ LET r == Logged([ev |-> "solve", state |-> req.state, raised |-> raises])
       IN  req' = [r EXCEPT !.pc = IF req.route = "create_solve_from_state"
                                   THEN "add" ELSE "answer",
                            !.solution_moves = IF raises THEN <<>> ELSE split(sol)]
    /\ UNCHANGED <<engineVars, tableVars, probe, rl, calls, build, gen>>

\* the try block: kociemba.solve(state) and the split of what it returned
CallSolver(raises, sol) ==
    /\ req.pc = "solve"
    /\ LET r == Logged([ev |-> "solve", state |-> req.state, raised |-> raises])
       IN  req' = IF raises
                  THEN Respond(r, 400, "This cube configuration cannot be solved")
                  ELSE [r EXCEPT !.pc = IF req.route = "create_solve_from_state"
                                        THEN "add" ELSE "answer",
                                 !.solution_moves = split(sol)]
    /\ UNCHANGED <<engineVars, tableVars, probe, rl, calls, build, gen>>

\* solve = Solve(...); db.session.add(solve)
AddSolve ==
    /\ req.pc = "add"
    /\ LET solve == [state |-> req.state, solution_moves |-> req.solution_moves,
                     num_moves |-> Len(req.solution_moves)]
           r == Logged([ev |-> "add", solve |-> solve])
       IN  req' = [r EXCEPT !.pc = "commit", !.session = Append(@, solve)]
    /\ UNCHANGED <<engineVars, tableVars, probe, rl, calls, build, gen>>

\* db.session.commit(), and the response 201
Commit ==
    /\ req.pc = "commit"
    /\ LET r == Logged([ev |-> "commit"])
       IN  req' = Respond([r EXCEPT !.store = @ \o req.session, !.session = <<>>], 201, None)
    /\ UNCHANGED <<engineVars, tableVars, probe, rl, calls, build, gen>>

\* optimal_solution: the response with the moves
Answer ==
    /\ req.pc = "answer"
    /\ req' = Respond(req, 200, None)
    /\ UNCHANGED <<engineVars, tableVars, probe, rl, calls, build, gen>>

NextRoutes ==
    \/ req.pc = "idle" /\ \E route \in Routes, body \in Bodies, authorised \in BOOLEAN :
                              Request(route, body, authorised)
    \/ CheckEvent
    \/ CheckState
    \/ Validate
    \/ req.pc = "solve" /\ \E raises \in BOOLEAN, sol \in Solutions : CallSolver(raises, sol)
    \/ AddSolve
    \/ Commit
    \/ Answer

SpecRoutes == Init /\ [][NextRoutes]_vars

(***************************************************************************)
(* Calls of scramble_to_state running at the same time.  calls.heap holds  *)
(* the list objects: the n-th list created by call c has the reference     *)
(* <<c, n>>; a local variable that names a list holds its reference.       *)
(* A step is one statement of one call; the steps of the calls interleave. *)
(***************************************************************************)
Proc(c) == calls.proc[c]
Alloc(c) == <<c, Proc(c).nalloc + 1>>

\* facelets = [] ... extend; the early return; scramble.split()
StartCall(c, s) ==
    /\ Proc(c).pc = "idle"
    /\ calls' = [heap |-> (<<c, 1>> :> Solved) @@ calls.heap,
                 proc |-> [calls.proc EXCEPT ![c] =
                    [pc |-> IF s = <<>> THEN "done" ELSE "loop",
                     scramble |-> s,
                     tokens |-> IF s = <<>> THEN <<>> ELSE split(s),
                     ti |-> 1, base |-> None, turnsLeft |-> 0,
                     facelets |-> <<c, 1>>, nalloc |-> 1,
                     returned |-> s = <<>>,
                     result |-> IF s = <<>> THEN join(Solved) ELSE None,
                     err |-> None]]]
    /\ UNCHANGED <<engineVars, tableVars, probe, rl, req, build, gen>>

\* the head of one iteration of "for tok in tokens"
TakeTokenOf(c) ==
    /\ Proc(c).pc = "loop"
    /\ Proc(c).ti <= Len(Proc(c).tokens)
    /\ calls' = [calls EXCEPT !.proc[c] =
                    [@ EXCEPT !.base = Proc(c).tokens[Proc(c).ti][1],
                              !.turnsLeft = Turns(Suffix(Proc(c).tokens[Proc(c).ti])),
                              !.pc = "turn"]]
    /\ UNCHANGED <<engineVars, tableVars, probe, rl, req, build, gen>>

\* _apply_move_once with "new_faces = facelets": it writes to the list it was
\* given and returns that list
TurnOf_in_place(c) ==
    /\ Proc(c).pc = "turn"
    /\ LET p == Proc(c)
           r == _apply_move_once(calls.heap[p.facelets], p.base)
       IN  IF r.raised # None
           THEN calls' = [calls EXCEPT !.proc[c] = [@ EXCEPT !.pc = "raised", !.err = r.raised]]
           ELSE calls' = [heap |-> [calls.heap EXCEPT ![p.facelets] =
                                      WriteInPlace(@, p.base, 0)],
                          proc |-> [calls.proc EXCEPT ![c] =
                             [@ EXCEPT !.turnsLeft = @ - 1,
                                       !.pc = IF p.turnsLeft = 1 THEN "loop" ELSE "turn",
                                       !.ti = IF p.turnsLeft = 1 THEN @ + 1 ELSE @]]]
    /\ UNCHANGED <<engineVars, tableVars, probe, rl, req, build, gen>>

\* facelets = _apply_move_once(facelets, base): the call creates the list
\* new_faces, writes to it alone and returns it
TurnOf(c) ==
    /\ Proc(c).pc = "turn"
    /\ LET p == Proc(c)
           r == _apply_move_once(calls.heap[p.facelets], p.base)
       IN  IF r.raised # None
           THEN calls' = [calls EXCEPT !.proc[c] = [@ EXCEPT !.pc = "raised", !.err = r.raised]]
           ELSE calls' = [heap |-> (Alloc(c) :> r.value) @@ calls.heap,
                          proc |-> [calls.proc EXCEPT ![c] =
                             [@ EXCEPT !.facelets = Alloc(c),
                                       !.nalloc = @ + 1,
                                       !.turnsLeft = @ - 1,
                                       !.pc = IF p.turnsLeft = 1 THEN "loop" ELSE "turn",
                                       !.ti = IF p.turnsLeft = 1 THEN @ + 1 ELSE @]]]
    /\ UNCHANGED <<engineVars, tableVars, probe, rl, req, build, gen>>

\* return "".join(facelets)
ReturnOf(c) ==
    /\ Proc(c).pc = "loop"
    /\ Proc(c).ti > Len(Proc(c).tokens)
    /\ calls' = [calls EXCEPT !.proc[c] =
                    [@ EXCEPT !.result = join(calls.heap[Proc(c).facelets]),
                              !.returned = TRUE,
                              !.pc = "done"]]
    /\ UNCHANGED <<engineVars, tableVars, probe, rl, req, build, gen>>

NextCalls ==
    \/ \E c \in CallIds : Proc(c).pc = "idle" /\ \E s \in ConcurrentScrambles : StartCall(c, s)
    \/ \E c \in CallIds : TakeTokenOf(c)
    \/ \E c \in CallIds : TurnOf(c)
    \/ \E c \in CallIds : ReturnOf(c)

SpecCalls == Init /\ [][NextCalls]_vars

(***************************************************************************)
(* Calls of _build_facelet_index_maps, one call of add() per step: idx and *)
(* the two dicts are locals of the call.  The calls may interleave; calls  *)
(* of scramble_to_state follow when both have returned.                    *)
(***************************************************************************)
\* idx taken up where another call of the builder has left it
BuildStart_counter_kept(b) ==
    /\ build[b].pc = "idle"
    /\ build' = [build EXCEPT ![b] =
                    [pc |-> "adding", n |-> 1,
                     idx |-> Max({0} \cup {build[o].idx : o \in {d \in BuildIds : build[d].pc # "idle"}}),
                     idx_to_key |-> <<>>, key_to_idx |-> <<>>]]
    /\ UNCHANGED <<engineVars, tableVars, probe, rl, req, calls, gen>>

\* idx_to_key = {}; key_to_idx = {}; idx = 0
BuildStart(b) ==
    /\ build[b].pc = "idle"
    /\ build' = [build EXCEPT ![b] =
                    [pc |-> "adding", n |-> 1, idx |-> 0,
                     idx_to_key |-> <<>>, key_to_idx |-> <<>>]]
    /\ UNCHANGED <<engineVars, tableVars, probe, rl, req, calls, gen>>

\* the n-th call of add(): idx_to_key[idx] = key; key_to_idx[key] = idx; idx += 1
BuildAdd(b) ==
    /\ build[b].pc = "adding"
    /\ build[b].n <= 54
    /\ LET key == AddCalls[build[b].n]
           idx == build[b].idx
       IN  build' = [build EXCEPT ![b] =
                        [@ EXCEPT !.idx_to_key = (idx :> key) @@ @,
                                  !.key_to_idx = (key :> idx) @@ @,
                                  !.idx = idx + 1,
                                  !.n = @ + 1]]
    /\ UNCHANGED <<engineVars, tableVars, probe, rl, req, calls, gen>>

\* return idx_to_key, key_to_idx
BuildReturn(b) ==
    /\ build[b].pc = "adding"
    /\ build[b].n > 54
    /\ build' = [build EXCEPT ![b] = [@ EXCEPT !.pc = "returned"]]
    /\ UNCHANGED <<engineVars, tableVars, probe, rl, req, calls, gen>>

BuildsReturned == \A b \in BuildIds : build[b].pc = "returned"

NextLoad ==
    \/ \E b \in BuildIds : BuildStart(b)
    \/ \E b \in BuildIds : BuildAdd(b)
    \/ \E b \in BuildIds : BuildReturn(b)
    \/ \E c \in CallIds :
          BuildsReturned /\ Proc(c).pc = "idle" /\ \E s \in ConcurrentScrambles : StartCall(c, s)
    \/ \E c \in CallIds : TakeTokenOf(c)
    \/ \E c \in CallIds : TurnOf(c)
    \/ \E c \in CallIds : ReturnOf(c)

SpecLoad == Init /\ [][NextLoad]_vars

(***************************************************************************)
(* generate_scramble_3x3, statement by statement; random.choice gives any  *)
(* element of its argument.  What it returns is then handed to             *)
(* scramble_to_state.                                                      *)
(***************************************************************************)
Choice(seq) == Range(seq)

\* scramble = []; prev_move = None; the head of "for _ in range(length)"
GenCall(length) ==
    /\ gen.pc = "idle"
    /\ gen' = [pc |-> IF length > 0 THEN "choose" ELSE "join",
               length |-> length, i |-> 0, scramble |-> <<>>,
               prev_move |-> None, move |-> None, result |-> None]
    /\ UNCHANGED <<engineVars, tableVars, probe, rl, req, calls, build>>

\* move = random.choice(MOVES)
GenChoose(m) ==
    /\ gen.pc = "choose"
    /\ gen' = [gen EXCEPT !.move = m, !.pc = "while"]
    /\ UNCHANGED <<engineVars, tableVars, probe, rl, req, calls, build>>

\* the while loop left out
GenWhile_left_out(m) ==
    /\ gen.pc = "while"
    /\ gen' = [gen EXCEPT !.pc = "mod"]
    /\ UNCHANGED <<engineVars, tableVars, probe, rl, req, calls, build>>

\* while move == prev_move: move = random.choice(MOVES)
GenWhile(m) ==
    /\ gen.pc = "while"
    /\ gen' = IF gen.move = gen.prev_move
              THEN [gen EXCEPT !.move = m]
              ELSE [gen EXCEPT !.pc = "mod"]
    /\ UNCHANGED <<engineVars, tableVars, probe, rl, req, calls, build>>

\* mod = random.choice(MODS); scramble.append(move + mod); prev_move = move
GenMod(mod) ==
    /\ gen.pc = "mod"
    /\ gen' = [gen EXCEPT !.scramble = Append(@, Tok(gen.move, mod)),
                          !.prev_move = gen.move,
                          !.i = @ + 1,
                          !.pc = IF gen.i + 1 < gen.length THEN "choose" ELSE "join"]
    /\ UNCHANGED <<engineVars, tableVars, probe, rl, req, calls, build>>

\* return " ".join(scramble)
GenReturn ==
    /\ gen.pc = "join"
    /\ gen' = [gen EXCEPT !.result = JoinWith(gen.scramble, <<" ">>), !.pc = "returned"]
    /\ UNCHANGED <<engineVars, tableVars, probe, rl, req, calls, build>>

NextGen ==
    \/ gen.pc = "idle" /\ \E length \in 0..MaxLength : GenCall(length)
    \/ gen.pc = "choose" /\ \E m \in Choice(MOVES) : GenChoose(m)
    \/ gen.pc = "while" /\ \E m \in Choice(MOVES) : GenWhile(m)
    \/ gen.pc = "mod" /\ \E mod \in Choice(MODS) : GenMod(mod)
    \/ GenReturn
    \/ gen.pc = "returned" /\ pc = "idle" /\ CallScramble(gen.result)
    \/ gen.pc = "returned" /\ TakeToken
    \/ gen.pc = "returned" /\ Turn
    \/ gen.pc = "returned" /\ Return

SpecGen == Init /\ [][NextGen]_vars

(***************************************************************************)
(* The last call of _apply_move_once that returned: its move, the list it  *)
(* was given and the list it returned.                                     *)
(***************************************************************************)
Moved == Len(applied) >= 1
LastMove == applied[Len(applied)]
Before == hist[Len(hist) - 1]
After == hist[Len(hist)]

\* the tokens of the scramble being interpreted
InScramble == scramble # None
FaceOf(tok) == tok[1]
AllFacesRecognised == \A k \in 1..Len(tokens) : FaceOf(tokens[k]) \in Recognised

\* number of slots of a list (or characters of a string) holding label c
CountOf(f, c) == Cardinality({i \in DOMAIN f : f[i] = c})

(***************************************************************************)
(* C1.  A scramble whose tokens all start with a letter of U,D,R,L,F,B     *)
(* never ends in an exception, and what scramble_to_state returns has      *)
(* length 54 and exactly 6 distinct characters, each 9 times, and is       *)
(* accepted by validate_cube_state_basic; every call of _apply_move_once   *)
(* that returns leaves the number of slots holding each label unchanged,   *)
(* whatever list it was given.                                             *)
(***************************************************************************)
C1_LabelsPreserved ==
    /\ (InScramble /\ AllFacesRecognised) => pc # "raised"
    /\ pc = "done" =>
          /\ Len(result) = 54
          /\ Cardinality(Range(result)) = 6
          /\ \A c \in Range(result) : CountOf(result, c) = 9
          /\ validate_cube_state_basic(result).valid
    /\ Moved =>
          /\ DOMAIN After = 0..53
          /\ \A c \in Range(Before) \cup Range(After) : CountOf(After, c) = CountOf(Before, c)

\* a scramble of two tokens with modifiers has returned a scrambled cube
C1_Witness ==
    /\ pc = "done"
    /\ Len(tokens) = 2
    /\ Len(applied) >= 4
    /\ result # join(Solved)

(***************************************************************************)
(* The facelet string layout (U, R, F, D, L, B blocks of nine, each read    *)
(* row by row looking at the face from outside), and what a clockwise      *)
(* quarter turn of each face does in it.  SideCycle[X] lists four strips   *)
(* of three slots: the labels of a strip move, slot by slot in the order   *)
(* written, to the next strip, those of the last strip to the first.       *)
(***************************************************************************)
BlockStart == [f \in Recognised |->
    CASE f = "U" -> 0 [] f = "R" -> 9 [] f = "F" -> 18
      [] f = "D" -> 27 [] f = "L" -> 36 [] f = "B" -> 45]

SideCycle == [f \in Recognised |->
    CASE f = "U" -> << <<18, 19, 20>>, <<36, 37, 38>>, <<45, 46, 47>>, <<9, 10, 11>> >>
      [] f = "D" -> << <<24, 25, 26>>, <<15, 16, 17>>, <<51, 52, 53>>, <<42, 43, 44>> >>
      [] f = "R" -> << <<20, 23, 26>>, <<2, 5, 8>>, <<51, 48, 45>>, <<29, 32, 35>> >>
      [] f = "L" -> << <<18, 21, 24>>, <<27, 30, 33>>, <<53, 50, 47>>, <<0, 3, 6>> >>
      [] f = "F" -> << <<6, 7, 8>>, <<9, 12, 15>>, <<29, 28, 27>>, <<44, 41, 38>> >>
      [] f = "B" -> << <<2, 1, 0>>, <<36, 39, 42>>, <<33, 34, 35>>, <<17, 14, 11>> >>]

\* the labels of each strip of X's cycle have moved on to the next strip
SidesTurned(X, before, after) ==
    \A k \in 1..4, c \in 1..3 :
        after[SideCycle[X][(k % 4) + 1][c]] = before[SideCycle[X][k][c]]

\* the nine labels of X's own block have turned clockwise: row r, column c
\* has gone to row c, column 2 - r
FaceTurned(X, before, after) ==
    \A r \in 0..2, c \in 0..2 :
        after[BlockStart[X] + 3 * c + (2 - r)] = before[BlockStart[X] + 3 * r + c]

ClockwiseTurn(X, before, after) ==
    SidesTurned(X, before, after) /\ FaceTurned(X, before, after)

SolvedAfterU ==
    <<"U","U","U","U","U","U","U","U","U", "B","B","B","R","R","R","R","R","R",
      "R","R","R","F","F","F","F","F","F", "D","D","D","D","D","D","D","D","D",
      "F","F","F","L","L","L","L","L","L", "L","L","L","B","B","B","B","B","B">>

(***************************************************************************)
(* C2.  Every returned call _apply_move_once(s, "U") or (s, "D") is the    *)
(* clockwise quarter turn of that face seen from outside: U sends F's top  *)
(* row to L's, L's to B's, B's to R's, R's to F's (so "U" on the solved    *)
(* cube gives UUUUUUUUU BBBRRRRRR RRRFFFFFF DDDDDDDDD FFFLLLLLL LLLBBBBBB),  *)
(* D sends F's bottom row to R's, R's to B's, B's to L's, L's to F's.      *)
(***************************************************************************)
C2_UD_Clockwise ==
    (Moved /\ LastMove \in {"U", "D"}) =>
        /\ ClockwiseTurn(LastMove, Before, After)
        /\ (LastMove = "U" /\ Before = Solved) => join(After) = SolvedAfterU

(***************************************************************************)
(* C3.  Every returned call _apply_move_once(s, X) with X one of R, L, F,  *)
(* B is the clockwise quarter turn of that face seen from outside: R sends *)
(* F's right column to U, U's to B, B's to D, D's to F; L sends F's left   *)
(* column to D, D's to B, B's to U, U's to F; F sends U's bottom row to R, *)
(* R's to D, D's to L, L's to U; B sends U's top row to L, L's to D, D's   *)
(* to R, R's to U; and a call with one of these letters always returns.    *)
(***************************************************************************)
C3_RLFB_Clockwise ==
    /\ (Moved /\ LastMove \in {"R", "L", "F", "B"}) =>
            ClockwiseTurn(LastMove, Before, After)
    /\ ~(pc = "raised" /\ base \in {"R", "L", "F", "B"})

\* B has been applied to the list of 54 different labels, after R, L and F
C3_Witness ==
    /\ Moved
    /\ hist[1] = Distinct
    /\ applied = <<"R", "L", "F", "B">>

(***************************************************************************)
(* The list after token k of the scramble was finished (k = 0: the solved  *)
(* cube the call starts from), and the modifiers the call knows.           *)
(***************************************************************************)
StateAfterToken(k) == IF k = 0 THEN hist[1] ELSE hist[marks[k] + 1]
KnownModifiers == {<<>>, <<"2">>, <<"'">>}
Repeated(tok, n) == [k \in 1..n |-> tok]

(***************************************************************************)
(* C4.  Whatever list s the first of them was given, four calls of         *)
(* _apply_move_once in a row with the same recognised face return s again; *)
(* and scramble_to_state("X X X X") returns the solved string.             *)
(***************************************************************************)
C4_FourTurnsIdentity ==
    /\ (Len(applied) >= 4
         /\ \A n \in (Len(applied) - 3)..Len(applied) : applied[n] = LastMove)
            => After = hist[Len(hist) - 4]
    /\ \A X \in Recognised :
         (pc = "done" /\ tokens = Repeated(<<X>>, 4)) => result = join(Solved)

\* four U in a row on the list of 54 different labels
C4_Witness ==
    /\ pc = "direct"
    /\ hist[1] = Distinct
    /\ applied = <<"U", "U", "U", "U">>
    /\ hist[2] # hist[1] /\ hist[3] # hist[1] /\ hist[4] # hist[1]

(***************************************************************************)
(* C5.  A token X directly followed by X', or X' directly followed by X,   *)
(* leaves the list as it was before the pair, so scramble_to_state of      *)
(* "X X'" is the solved string; and on any list s the one turn of X with   *)
(* the turns of X' (before or after it) give s again.                      *)
(***************************************************************************)
InversePair(t1, t2) ==
    /\ t1[1] = t2[1]
    /\ t1[1] \in Recognised
    /\ {Suffix(t1), Suffix(t2)} = {<<>>, <<"'">>}

C5_MoveThenInverse ==
    /\ (Len(marks) >= 2 /\ InversePair(tokens[Len(marks) - 1], tokens[Len(marks)]))
            => StateAfterToken(Len(marks)) = StateAfterToken(Len(marks) - 2)
    /\ (pc = "done" /\ Len(tokens) = 2 /\ InversePair(tokens[1], tokens[2]))
            => result = join(Solved)
    /\ LET n == Turns(<<>>) + Turns(<<"'">>)
       IN  (pc = "direct" /\ Len(applied) >= n
            /\ \A m \in (Len(applied) - n + 1)..Len(applied) : applied[m] = LastMove)
               => After = hist[Len(hist) - n]

\* "F' F" has been interpreted
C5_Witness ==
    /\ pc = "done"
    /\ tokens = << <<"F", "'">>, <<"F">> >>
    /\ Len(applied) = 4
    /\ StateAfterToken(1) # Solved

(***************************************************************************)
(* C6.  A token whose modifier is not empty, "2" or "'" makes              *)
(* scramble_to_state end in an error: the call does not return a string,   *)
(* and the loop never finishes such a token as if it were a move.          *)
(***************************************************************************)
C6_BadModifierRejected ==
    InScramble =>
        /\ pc = "done" => \A k \in 1..Len(tokens) : Suffix(tokens[k]) \in KnownModifiers
        /\ \A k \in 1..Len(marks) : Suffix(tokens[k]) \in KnownModifiers

(***************************************************************************)
(* C7.  A move whose letter is not one of U, D, R, L, F, B ends in the     *)
(* ValueError "unknown move" and in no returned list or string:            *)
(* _apply_move_once returns only for recognised letters, the loop of       *)
(* scramble_to_state never gets past a token with another first character, *)
(* and a scramble holding such a token, wherever, returns nothing.         *)
(***************************************************************************)
C7_UnknownFaceIsError ==
    /\ \A n \in 1..Len(applied) : applied[n] \in Recognised
    /\ (pc = "raised" /\ base \notin Recognised) =>
            /\ err = "ValueError: unknown move"
            /\ result = None
            /\ Len(hist) = Len(applied) + 1
    /\ (pc = "raised" /\ base \in Recognised) => err # "ValueError: unknown move"
    /\ InScramble =>
            /\ \A k \in 1..Len(marks) : FaceOf(tokens[k]) \in Recognised
            /\ (pc = "turn" /\ base \notin Recognised) => Len(marks) = ti - 1
            /\ pc = "done" => AllFacesRecognised
            /\ ~AllFacesRecognised => result = None

\* the second token of a scramble has an unknown letter, after a first that was applied
C7_Witness ==
    /\ pc = "raised"
    /\ InScramble
    /\ Len(tokens) = 2 /\ ti = 2
    /\ FaceOf(tokens[2]) \notin Recognised
    /\ Len(applied) >= 1
    /\ err = "ValueError: unknown move"

(***************************************************************************)
(* C8.  A returned call _apply_move_once(s, X) leaves every slot outside   *)
(* X's layer (X's own nine slots and the three adjoining slots on each of  *)
(* the four neighbouring faces) with the label it has in s; so "U" leaves  *)
(* the D block 27..35 and the lower two rows of R, F, L and B alone.       *)
(***************************************************************************)
LayerSlots(X) ==
    (BlockStart[X]..(BlockStart[X] + 8))
    \cup {SideCycle[X][k][c] : k \in 1..4, c \in 1..3}

LowerRows == UNION {{b + 3, b + 4, b + 5, b + 6, b + 7, b + 8} : b \in {9, 18, 36, 45}}

C8_OtherSlotsUnchanged ==
    Moved =>
        /\ \A i \in (0..53) \ LayerSlots(LastMove) : After[i] = Before[i]
        /\ LastMove = "U" => \A i \in (27..35) \cup LowerRows : After[i] = Before[i]

\* U applied to the list of 54 different labels, changing it
C8_Witness ==
    /\ Moved
    /\ hist[1] = Distinct
    /\ LastMove = "U"
    /\ After # Before

(***************************************************************************)
(* C9.  validate_cube_state_basic returns, for every string: invalid with  *)
(* the length reason when the length is not 54, whatever the counts;       *)
(* otherwise invalid with the distinct-count reason when the number of     *)
(* distinct characters is not 6; otherwise invalid with the uneven-count   *)
(* reason, listing exactly the characters that do not occur 9 times, when  *)
(* there is one; otherwise valid with no reason.                           *)
(***************************************************************************)
Chars(s) == {s[n] : n \in 1..Len(s)}
OffCount(s) == {c \in Chars(s) : CountOf(s, c) # 9}

C9_ValidatorReference ==
    pc = "validated" =>
        /\ verdict.valid = (Len(state) = 54 /\ Cardinality(Chars(state)) = 6
                                             /\ OffCount(state) = {})
        /\ verdict.valid = (verdict.reason = None)
        /\ verdict.reason = "length" <=> Len(state) # 54
        /\ verdict.reason = "distinct" <=>
                (Len(state) = 54 /\ Cardinality(Chars(state)) # 6)
        /\ verdict.reason = "distinct" => verdict.found = Cardinality(Chars(state))
        /\ verdict.reason = "uneven" <=>
                (Len(state) = 54 /\ Cardinality(Chars(state)) = 6 /\ OffCount(state) # {})
        /\ verdict.reason = "uneven" =>
                /\ DOMAIN verdict.bad = OffCount(state)
                /\ \A c \in OffCount(state) : verdict.bad[c] = CountOf(state, c)

\* a string of 54 characters, six different ones, two of them not 9 times
C9_Witness ==
    /\ pc = "validated"
    /\ Len(state) = 54
    /\ Cardinality(Chars(state)) = 6
    /\ verdict.reason = "uneven"
    /\ Cardinality(DOMAIN verdict.bad) = 2

(***************************************************************************)
(* C10.  scramble_to_state applies the tokens from left to right: for      *)
(* every way of cutting the tokens into A followed by B, what it returns   *)
(* for "A B" is what applying the tokens of B in order to the result for A *)
(* gives, the result for A being the list the loop holds when it has       *)
(* finished A's tokens; the results for "R U" and "U R" differ.            *)
(***************************************************************************)
RECURSIVE TurnTimes(_, _, _)
TurnTimes(fl, face, n) ==
    IF n = 0 THEN fl ELSE TurnTimes(_apply_move_once(fl, face).value, face, n - 1)

RECURSIVE InOrder(_, _)
InOrder(fl, toks) ==
    IF toks = <<>> THEN fl
    ELSE InOrder(TurnTimes(fl, toks[1][1], Turns(Suffix(toks[1]))), Tail(toks))

C10_LeftToRight ==
    /\ InScramble =>
          \A k \in 1..Len(marks) :
              /\ \A j \in 1..k : FaceOf(tokens[j]) \in Recognised
              /\ StateAfterToken(k) = InOrder(Solved, SubSeq(tokens, 1, k))
    /\ (pc = "done" /\ tokens # <<>>) =>
          /\ \A k \in 0..Len(tokens) :
                result = join(InOrder(StateAfterToken(k),
                                      SubSeq(tokens, k + 1, Len(tokens))))
          /\ tokens = << <<"R">>, <<"U">> >> =>
                result # join(InOrder(Solved, << <<"U">>, <<"R">> >>))

\* "R U" has been interpreted
C10_Witness ==
    /\ pc = "done"
    /\ tokens = << <<"R">>, <<"U">> >>
    /\ applied = <<"R", "U">>

(***************************************************************************)
(* C11.  A finished token X, X2 or X' of a recognised face has applied the *)
(* move X exactly 1, 2 or 3 times and nothing else, whatever list the      *)
(* tokens before it left; so scramble_to_state returns for "X2" what it    *)
(* returns for "X X" and for "X'" what it returns for "X X X".             *)
(***************************************************************************)
TurnsOfToken(k) == marks[k] - (IF k = 1 THEN 0 ELSE marks[k - 1])

TimesFor(suf) ==
    CASE suf = <<>> -> 1
      [] suf = <<"2">> -> 2
      [] suf = <<"'">> -> 3

C11_ModifierCounts ==
    /\ InScramble =>
          \A k \in 1..Len(marks) :
              (FaceOf(tokens[k]) \in Recognised /\ Suffix(tokens[k]) \in KnownModifiers) =>
                  /\ TurnsOfToken(k) = TimesFor(Suffix(tokens[k]))
                  /\ \A n \in (marks[k] - TurnsOfToken(k) + 1)..marks[k] :
                        applied[n] = FaceOf(tokens[k])
                  /\ StateAfterToken(k) =
                        TurnTimes(StateAfterToken(k - 1), FaceOf(tokens[k]),
                                  TimesFor(Suffix(tokens[k])))
    /\ \A X \in Recognised :
          pc = "done" =>
              /\ tokens \in {<< <<X, "2">> >>, << <<X>>, <<X>> >>}
                    => result = join(TurnTimes(Solved, X, 2))
              /\ tokens \in {<< <<X, "'">> >>, << <<X>>, <<X>>, <<X>> >>}
                    => result = join(TurnTimes(Solved, X, 3))

\* "F2 L'" has been interpreted: two turns of F, then three of L
C11_Witness ==
    /\ pc = "done"
    /\ tokens = << <<"F", "2">>, <<"L", "'">> >>
    /\ applied = <<"F", "F", "L", "L", "L">>
    /\ marks = <<2, 5>>

(***************************************************************************)
(* C12.  scramble_to_state("") returns the solved string, nine U, nine R,  *)
(* nine F, nine D, nine L, nine B, and has called _apply_move_once not     *)
(* once.                                                                   *)
(***************************************************************************)
SolvedString ==
    <<"U","U","U","U","U","U","U","U","U", "R","R","R","R","R","R","R","R","R",
      "F","F","F","F","F","F","F","F","F", "D","D","D","D","D","D","D","D","D",
      "L","L","L","L","L","L","L","L","L", "B","B","B","B","B","B","B","B","B">>

C12_EmptyScramble ==
    (InScramble /\ scramble = <<>>) =>
        /\ pc = "done"
        /\ result = SolvedString
        /\ applied = <<>>
        /\ Len(hist) = 1
        /\ err = None

\* the call with the empty string has returned
C12_Witness ==
    /\ InScramble
    /\ scramble = <<>>
    /\ pc = "done"
    /\ tokens = <<>>
    /\ Len(result) = 54

(***************************************************************************)
(* C13.  The two tables are inverse bijections between the indices 0..53   *)
(* and the 54 keys (x,y,z,nx,ny,nz) whose position is in {-1,0,1}^3, whose *)
(* normal is a signed unit axis vector and whose position has the normal's *)
(* sign along the normal's axis: a lookup hits exactly for these indices   *)
(* and keys, and looking the answer up in the other table gives the        *)
(* argument back.                                                          *)
(***************************************************************************)
UnitNormals == {v \in Vectors : v[1] * v[1] + v[2] * v[2] + v[3] * v[3] = 1}

ValidKeys ==
    {k \in KeyArgs :
        /\ <<k[4], k[5], k[6]>> \in UnitNormals
        /\ k[1] * k[4] + k[2] * k[5] + k[3] * k[6] = 1}

C13_TablesBijection ==
    /\ DOMAIN idx_to_key = 0..53
    /\ Cardinality(DOMAIN key_to_idx) = 54
    /\ DOMAIN key_to_idx = ValidKeys
    /\ \A i \in DOMAIN idx_to_key :
          idx_to_key[i] \in DOMAIN key_to_idx /\ key_to_idx[idx_to_key[i]] = i
    /\ \A k \in DOMAIN key_to_idx :
          key_to_idx[k] \in DOMAIN idx_to_key /\ idx_to_key[key_to_idx[k]] = k
    /\ probe.op = "idx" =>
          /\ probe.hit <=> probe.idx \in 0..53
          /\ probe.hit => (probe.backhit /\ probe.back = probe.idx)
    /\ probe.op = "key" =>
          /\ probe.hit <=> probe.key \in ValidKeys
          /\ probe.hit => (probe.backhit /\ probe.back = probe.key)

\* the key of F's top right sticker looked up: slot 20, and back
C13_Witness ==
    /\ probe.op = "key"
    /\ probe.key = <<1, 1, 1, 0, 0, 1>>
    /\ probe.hit
    /\ probe.idx = 20
    /\ probe.backhit

(***************************************************************************)
(* C14.  Slots 0..8 belong to U, 9..17 to R, 18..26 to F, 27..35 to D,     *)
(* 36..44 to L, 45..53 to B: the key of slot i has the outward normal of   *)
(* that face (U +y, R +x, F +z, D -y, L -x, B -z), and the list            *)
(* scramble_to_state starts from holds that face's letter in slot i.       *)
(***************************************************************************)
FaceOrder == <<"U", "R", "F", "D", "L", "B">>
FaceNormal ==
    [f \in Recognised |->
        CASE f = "U" -> <<0, 1, 0>> [] f = "R" -> <<1, 0, 0>> [] f = "F" -> <<0, 0, 1>>
          [] f = "D" -> <<0, -1, 0>> [] f = "L" -> <<-1, 0, 0>> [] f = "B" -> <<0, 0, -1>>]
FaceOfSlot(i) == FaceOrder[(i \div 9) + 1]

C14_FaceMajorOrder ==
    /\ \A i \in 0..53 :
          <<idx_to_key[i][4], idx_to_key[i][5], idx_to_key[i][6]>> = FaceNormal[FaceOfSlot(i)]
    /\ InScramble =>
          /\ DOMAIN hist[1] = 0..53
          /\ \A i \in 0..53 : hist[1][i] = FaceOfSlot(i)

\* scramble_to_state has built the solved list and is about to read its first token
C14_Witness ==
    /\ InScramble
    /\ pc = "loop"
    /\ ti = 1
    /\ tokens # <<>>
    /\ applied = <<>>
    /\ facelets = hist[1]

(***************************************************************************)
(* C17.  The lambda of each face selects 21 slots: the nine of the face's  *)
(* own block, three of each of the four neighbouring blocks and none of    *)
(* the opposite block; they are the slots whose position has y = 1 (U),    *)
(* y = -1 (D), x = 1 (R), x = -1 (L), z = 1 (F), z = -1 (B).               *)
(***************************************************************************)
FaceBlock(f) == BlockStart[f]..(BlockStart[f] + 8)
OppositeFace ==
    [f \in Recognised |->
        CASE f = "U" -> "D" [] f = "D" -> "U" [] f = "R" -> "L"
          [] f = "L" -> "R" [] f = "F" -> "B" [] f = "B" -> "F"]
OnSlice(f, key) ==
    CASE f = "U" -> key[2] = 1 [] f = "D" -> key[2] = -1 [] f = "R" -> key[1] = 1
      [] f = "L" -> key[1] = -1 [] f = "F" -> key[3] = 1 [] f = "B" -> key[3] = -1

C17_LayerHas21Slots ==
    probe.op = "select" =>
        LET X == probe.move
            S == probe.slots
        IN  /\ Cardinality(S) = 21
            /\ FaceBlock(X) \subseteq S
            /\ S \cap FaceBlock(OppositeFace[X]) = {}
            /\ \A f \in Recognised \ {X, OppositeFace[X]} :
                  Cardinality(S \cap FaceBlock(f)) = 3
            /\ S = {i \in 0..53 : OnSlice(X, idx_to_key[i])}

\* the layer of B asked for
C17_Witness ==
    /\ probe.op = "select"
    /\ probe.move = "B"
    /\ 45 \in probe.slots
    /\ 0 \in probe.slots

(***************************************************************************)
(* C18.  In a call of rotate_layer the lookup KEY_TO_IDX[rotated key]      *)
(* never misses; the slot it gives lies in the layer again; slots visited  *)
(* so far have got different destinations (no item of mapping was          *)
(* overwritten); and the second loop assigns each of the 21 slots of the   *)
(* layer once, from the list the call was given.                           *)
(***************************************************************************)
VisitedSoFar == {i \in Selected(rl.move) : i < rl.i}
Destinations == {rl.mapping[n][1] : n \in 1..Len(rl.mapping)}
Sources == {rl.mapping[n][2] : n \in 1..Len(rl.mapping)}

C18_LookupNeverMisses ==
    /\ rl.pc # "KeyError"
    /\ rl.pc \in {"build", "write", "returned"} =>
          /\ \A i \in Selected(rl.move) :
                /\ RotatedKey(rl.move, i) \in DOMAIN key_to_idx
                /\ selector_fn(rl.move, RotatedKey(rl.move, i))
          /\ Len(rl.mapping) = Cardinality(VisitedSoFar)
          /\ Sources = VisitedSoFar
          /\ Cardinality(Destinations) = Cardinality(VisitedSoFar)
          /\ Destinations \subseteq {i \in 0..53 : OnSlice(rl.move, idx_to_key[i])}
    /\ rl.pc \in {"write", "returned"} =>
          /\ Cardinality(Destinations) = 21
          /\ \A n \in 1..Len(rl.written) :
                rl.new_faces[rl.mapping[n][1]] = rl.facelets[rl.mapping[n][2]]
    /\ rl.pc = "returned" =>
          /\ Len(rl.written) = 21
          /\ {rl.written[n] : n \in 1..21} = Destinations
          /\ \A j \in (0..53) \ Destinations : rl.new_faces[j] = rl.facelets[j]
          /\ rotate_layer(rl.facelets, rl.move).raised = None
          /\ rl.new_faces = rotate_layer(rl.facelets, rl.move).value

\* a call with F on the list of 54 different labels has returned
C18_Witness ==
    /\ rl.pc = "returned"
    /\ rl.move = "F"
    /\ rl.facelets = Distinct
    /\ Len(rl.written) = 21
    /\ rl.new_faces # rl.facelets

(***************************************************************************)
(* C19.  Each rotation primitive maps {-1,0,1}^3 one-to-one onto itself,   *)
(* applied four times gives its argument back, and undoes the primitive    *)
(* of the same axis and the other sign (so each pair undoes the other in   *)
(* both orders).                                                           *)
(***************************************************************************)
C19_PrimitivesArePermutations ==
    /\ probe.op \in {"rot", "rotback"} =>
          \A n \in 1..Len(probe.trail) : probe.trail[n] \in Vectors
    /\ probe.op = "rot" =>
          /\ \A w \in Vectors : Prim(probe.name, w) = probe.trail[2] => w = probe.trail[1]
          /\ \E w \in Vectors : Prim(probe.name, w) = probe.trail[1]
          /\ Len(probe.trail) = 5 => probe.trail[5] = probe.trail[1]
    /\ probe.op = "rotback" => probe.back = probe.trail[1]

\* _rot_y_neg90 applied four times to a corner position
C19_Witness ==
    /\ probe.op = "rot"
    /\ probe.name = "_rot_y_neg90"
    /\ Len(probe.trail) = 5
    /\ probe.trail[1] = <<1, 1, 1>>
    /\ probe.trail[2] # probe.trail[1]
    /\ probe.trail[3] # probe.trail[1]

(***************************************************************************)
(* C15.  In both routes every call of kociemba.solve comes after a call of *)
(* validate_cube_state_basic with the same string that returned valid; a   *)
(* request whose validator call returned invalid, whose body has no state  *)
(* or whose event is not "3x3" never calls the solver.                     *)
(***************************************************************************)
SolverCalls == {n \in 1..Len(req.log) : req.log[n].ev = "solve"}
ValidatorCalls == {n \in 1..Len(req.log) : req.log[n].ev = "validate"}

C15_SolverOnlyAfterValidation ==
    /\ \A n \in SolverCalls :
          /\ \E m \in ValidatorCalls :
                m < n /\ req.log[m].valid /\ req.log[m].state = req.log[n].state
          /\ validate_cube_state_basic(req.log[n].state).valid
    /\ (\E m \in ValidatorCalls : ~req.log[m].valid) => SolverCalls = {}
    /\ req.pc # "idle" =>
          /\ "state" \notin DOMAIN req.body => SolverCalls = {}
          /\ req.event # "3x3" => SolverCalls = {}
          /\ ("state" \in DOMAIN req.body /\ ~validate_cube_state_basic(req.body.state).valid)
                => SolverCalls = {}

\* optimal_solution has answered with the moves the solver gave for a valid state
C15_Witness ==
    /\ req.pc = "responded"
    /\ req.route = "optimal_solution"
    /\ Len(req.log) = 3
    /\ req.log[1].ev = "validate" /\ req.log[1].valid
    /\ req.log[2].ev = "solve" /\ ~req.log[2].raised
    /\ req.log[3].status = 200

(***************************************************************************)
(* C20.  When kociemba.solve raises, the request has called it once, with  *)
(* the state of the body as it came, and ends at once with an error        *)
(* response: nothing is added to the session or committed to the store.    *)
(* No request calls the solver twice.                                      *)
(***************************************************************************)
StoreCalls == {n \in 1..Len(req.log) : req.log[n].ev \in {"add", "commit"}}

C20_SolverRejectionPassedOn ==
    /\ Cardinality(SolverCalls) <= 1
    /\ \A n \in SolverCalls :
          "state" \in DOMAIN req.body /\ req.log[n].state = req.body.state
    /\ \A n \in SolverCalls :
          req.log[n].raised =>
              /\ req.pc = "responded"
              /\ n = Len(req.log) - 1
              /\ req.log[Len(req.log)].ev = "respond"
              /\ req.log[Len(req.log)].status = 400
              /\ StoreCalls = {}
              /\ req.session = <<>>
              /\ req.store = <<>>

\* create_solve_from_state has answered 400 after the solver raised on a valid string
C20_Witness ==
    /\ req.pc = "responded"
    /\ req.route = "create_solve_from_state"
    /\ "state" \in DOMAIN req.body
    /\ req.body.state = Unsolvable
    /\ Len(req.log) = 3
    /\ req.log[2].ev = "solve" /\ req.log[2].raised
    /\ req.log[3].status = 400

(***************************************************************************)
(* C16.  With two calls of scramble_to_state interleaved statement by      *)
(* statement, each call holds at every step the list it holds at that step *)
(* when run alone, and returns or raises as it does alone; a step changes  *)
(* the locals of one call only; no list object is changed after it was     *)
(* created (so _apply_move_once leaves the list it is given as it was and  *)
(* writes to a new one only); a call only holds lists it created itself;   *)
(* and IDX_TO_KEY and KEY_TO_IDX stay as they were when the module was     *)
(* loaded.                                                                 *)
(***************************************************************************)
\* the list call c holds at its position when nothing else runs
AloneAt(p) ==
    LET before == InOrder(Solved, SubSeq(p.tokens, 1, p.ti - 1))
    IN  IF p.pc = "turn" /\ p.base \in Recognised
        THEN TurnTimes(before, p.base, Turns(Suffix(p.tokens[p.ti])) - p.turnsLeft)
        ELSE before

C16_CallState ==
    /\ idx_to_key = IDX_TO_KEY
    /\ key_to_idx = KEY_TO_IDX
    /\ \A c \in CallIds :
          LET p == Proc(c)
          IN  p.pc # "idle" =>
                /\ p.facelets[1] = c
                /\ p.facelets \in DOMAIN calls.heap
                /\ \A k \in 1..(p.ti - 1) : FaceOf(p.tokens[k]) \in Recognised
                /\ calls.heap[p.facelets] = AloneAt(p)
                /\ p.pc = "done" =>
                      /\ p.ti = Len(p.tokens) + 1
                      /\ p.result = join(InOrder(Solved, p.tokens))
                /\ p.pc = "raised" =>
                      /\ FaceOf(p.tokens[p.ti]) \notin Recognised
                      /\ p.err = "ValueError: unknown move"
                      /\ ~p.returned

C16_CallStep ==
    /\ UNCHANGED tableVars
    /\ \A ref \in DOMAIN calls.heap :
          ref \in DOMAIN calls'.heap /\ calls'.heap[ref] = calls.heap[ref]
    /\ Cardinality({c \in CallIds : calls'.proc[c] # calls.proc[c]}) <= 1

C16_NoSharedState == []C16_CallState /\ [][C16_CallStep]_vars

\* both calls are in the middle of a token, each with lists of its own
C16_Witness ==
    /\ Proc("a").pc = "turn" /\ Proc("b").pc = "turn"
    /\ Proc("a").tokens = << <<"R">>, <<"F", "'">> >>
    /\ Proc("b").tokens = << <<"F", "'">>, <<"R">> >>
    /\ Proc("a").nalloc = 3 /\ Proc("a").turnsLeft = 2
    /\ Proc("b").nalloc = 2 /\ Proc("b").turnsLeft = 2
    /\ Cardinality(DOMAIN calls.heap) = 5

(***************************************************************************)
(* C21.  Two calls of _build_facelet_index_maps return the same two        *)
(* tables, which are the tables the module holds; and two calls of         *)
(* scramble_to_state with the same scramble end the same way, with the     *)
(* same string when they return.                                           *)
(***************************************************************************)
Ended(p) == p.pc \in {"done", "raised"}

C21_Deterministic ==
    /\ \A b \in BuildIds :
          build[b].pc = "returned" =>
              /\ build[b].idx_to_key = idx_to_key
              /\ build[b].key_to_idx = key_to_idx
              /\ \A o \in BuildIds :
                    build[o].pc = "returned" =>
                        /\ build[o].idx_to_key = build[b].idx_to_key
                        /\ build[o].key_to_idx = build[b].key_to_idx
    /\ \A c \in CallIds, d \in CallIds :
          (Ended(Proc(c)) /\ Ended(Proc(d)) /\ Proc(c).scramble = Proc(d).scramble) =>
              /\ Proc(c).pc = Proc(d).pc
              /\ Proc(c).err = Proc(d).err
              /\ Proc(c).pc = "done" => Proc(c).result = Proc(d).result

\* both calls of the builder have returned, and two calls with "R F'" too
C21_Witness ==
    /\ BuildsReturned
    /\ build["one"].idx = 54 /\ build["two"].idx = 54
    /\ Proc("a").pc = "done" /\ Proc("b").pc = "done"
    /\ Proc("a").tokens = << <<"R">>, <<"F", "'">> >>
    /\ Proc("b").scramble = Proc("a").scramble
    /\ Proc("a").nalloc = 5

(***************************************************************************)
(* C22.  What generate_scramble_3x3(length) returns is length tokens with  *)
(* one space between them, each a letter of R, L, U, D, F, B followed by   *)
(* nothing, "'" or "2", no two neighbours with the same letter; and        *)
(* scramble_to_state given that string never raises and returns 54         *)
(* characters.                                                             *)
(***************************************************************************)
C22_GeneratedScramble ==
    gen.pc = "returned" =>
        LET toks == split(gen.result)
        IN  /\ Len(toks) = gen.length
            /\ gen.result = JoinWith(toks, <<" ">>)
            /\ \A k \in 1..Len(toks) :
                  /\ toks[k][1] \in {"R", "L", "U", "D", "F", "B"}
                  /\ Suffix(toks[k]) \in {<<>>, <<"'">>, <<"2">>}
            /\ \A k \in 1..(Len(toks) - 1) : toks[k][1] # toks[k + 1][1]
            /\ InScramble =>
                  /\ scramble = gen.result
                  /\ pc # "raised"
                  /\ err = None
                  /\ pc = "done" => (Len(result) = 54 /\ Len(marks) = gen.length)

\* a generated scramble of two tokens has been interpreted
C22_Witness ==
    /\ gen.pc = "returned"
    /\ gen.length = 2
    /\ Len(gen.scramble) = 2
    /\ InScramble
    /\ pc = "done"
    /\ Len(applied) >= 4

(***************************************************************************)
(* C23.  The centre slots 4, 13, 22, 31, 40, 49 keep their labels: after   *)
(* every chain of returned calls of _apply_move_once they hold what they   *)
(* held in the list the chain started from, and every string               *)
(* scramble_to_state returns has U, R, F, D, L, B there, in this order.    *)
(***************************************************************************)
Centres == <<4, 13, 22, 31, 40, 49>>

C23_CentresFixed ==
    /\ Moved => \A n \in 1..6 : After[Centres[n]] = hist[1][Centres[n]]
    /\ pc = "done" =>
          \A n \in 1..6 : result[Centres[n] + 1] = <<"U", "R", "F", "D", "L", "B">>[n]

\* U, R, F and D turned one after the other on the list of 54 different labels
C23_Witness ==
    /\ pc = "direct"
    /\ hist[1] = Distinct
    /\ applied = <<"U", "R", "F", "D">>
    /\ After # hist[1]

(***************************************************************************)
(* C24.  Calls of _apply_move_once keep cubelets whole.  On a list of 54   *)
(* different labels, after every call the labels are still 54 different    *)
(* ones, two slots at one position hold labels that started at one         *)
(* position (so the call has sent the stickers of a cubelet to the slots   *)
(* of one cubelet), and a label that started on a corner, an edge or a     *)
(* centre is on a corner, an edge or a centre.  In every list reached from *)
(* the solved one, two labels at one position are never equal and never    *)
(* the labels of opposite faces.                                           *)
(***************************************************************************)
PositionOf(i) == <<IDX_TO_KEY[i][1], IDX_TO_KEY[i][2], IDX_TO_KEY[i][3]>>
\* 3 for a corner, 2 for an edge, 1 for a centre
KindOf(i) ==
    LET p == PositionOf(i)
    IN  p[1] * p[1] + p[2] * p[2] + p[3] * p[3]
SameCubelet == {ij \in (0..53) \X (0..53) : ij[1] < ij[2] /\ PositionOf(ij[1]) = PositionOf(ij[2])}
\* the slot a label of Distinct started in
HomeOf == [c \in Range(Distinct) |-> CHOOSE i \in 0..53 : Distinct[i] = c]
HomePosition == [c \in Range(Distinct) |-> PositionOf(HomeOf[c])]
HomeKind == [c \in Range(Distinct) |-> KindOf(HomeOf[c])]
KindOfSlot == [i \in 0..53 |-> KindOf(i)]

C24_CubeletsIntact ==
    /\ (Moved /\ hist[1] = Distinct) =>
          /\ Range(After) = Range(Distinct)
          /\ \A a \in 0..53 : HomeKind[After[a]] = KindOfSlot[a]
          /\ \A ij \in SameCubelet :
                HomePosition[After[ij[1]]] = HomePosition[After[ij[2]]]
    /\ (Moved /\ hist[1] = Solved) =>
          \A ij \in SameCubelet :
              /\ After[ij[1]] \in Recognised
              /\ After[ij[2]] \in Recognised
              /\ After[ij[1]] # After[ij[2]]
              /\ After[ij[1]] # OppositeFace[After[ij[2]]]

\* F, R and U turned on the solved cube: the corner of slot 8 has other labels
C24_Witness ==
    /\ pc = "direct"
    /\ hist[1] = Solved
    /\ applied = <<"F", "R", "U">>
    /\ After[8] # "U"
    /\ PositionOf(8) = PositionOf(9)
    /\ After[9] # "R"

(***************************************************************************)
(* C25.  Two calls of _apply_move_once for opposite faces, (U, D), (R, L)  *)
(* or (F, B) in either order, give the list that the same two calls in the *)
(* other order give from the same list.                                    *)
(***************************************************************************)
C25_OppositeFacesCommute ==
    (Len(applied) >= 2 /\ applied[Len(applied) - 1] = OppositeFace[LastMove]) =>
        LET s == hist[Len(hist) - 2]
            first == _apply_move_once(s, LastMove)
        IN  /\ first.raised = None
            /\ LET second == _apply_move_once(first.value, applied[Len(applied) - 1])
               IN  /\ second.raised = None
                   /\ second.value = After

\* F then B on a list of 54 different labels that R has already turned
C25_Witness ==
    /\ pc = "direct"
    /\ hist[1] = Distinct
    /\ applied = <<"R", "F", "B">>
    /\ After # hist[2]
    /\ After # Before

====
